---- MODULE Spec2Model ----
(***************************************************************************)
(* Model of scripts/pp_structure_server.py: the POST /parse handler, the   *)
(* PDF rasterisation into the shared directory temp_pdf_images, the        *)
(* conversion of the layout model's result into blocks, and the blanket    *)
(* exception handler.  Requests are served by the threads of the Flask     *)
(* development server (app.run, threaded by default), so several handlers  *)
(* can be in flight over the one temp directory.                           *)
(***************************************************************************)
EXTENDS Integers, Sequences, FiniteSets, TLC

VARIABLES
    pc,         \* per worker thread: position in parse_pdf
    req,        \* per worker: the request body being served
    images,     \* per worker: local 'images' of pdf_to_images / parse_pdf
    page_num,   \* per worker: loop variable of pdf_to_images (0-based)
    cur,        \* per worker: position of the loop at line 144 in 'images'
    result,     \* per worker: local 'result' (the model's output for a page)
    pages,      \* per worker: local 'pages'
    exc,        \* per worker: str(e) of the exception being raised
    resp,       \* per worker: the responses sent for the current request
    tempDir,    \* does the directory temp_pdf_images exist
    tempFiles,  \* the files of temp_pdf_images: path -> image content
    nReq,       \* number of requests accepted so far
    nFaults,    \* number of environment faults injected so far
    hist        \* per worker: history of the request (for the properties)

vars == <<pc, req, images, page_num, cur, result, pages, exc, resp,
          tempDir, tempFiles, nReq, nFaults, hist>>

locals == <<images, page_num, cur, result, pages>>
fs == <<tempDir, tempFiles>>

-----------------------------------------------------------------------------
(* Bounds of the model *)

MaxRequests == 2
MaxFaults == 1

Workers == {1, 2}

-----------------------------------------------------------------------------
(* The environment: the PDFs on disk and the layout model *)

\* Paths that exist on disk; "corrupt.pdf" exists but is no PDF.
Docs ==
    [x \in {"a.pdf", "b.pdf", "c.pdf", "empty.pdf"} |->
        CASE x = "a.pdf" -> << [width |-> 612, height |-> 792],
                               [width |-> 842, height |-> 595] >>
          [] x = "b.pdf" -> << [width |-> 595, height |-> 842] >>
          [] x = "c.pdf" -> << [width |-> 300, height |-> 400] >>
          [] x = "empty.pdf" -> << >> ]

ExistingPaths == DOMAIN Docs \cup {"corrupt.pdf"}

\* Request bodies: no/invalid JSON, JSON null, an object without pdf_path,
\* an object with pdf_path.
Bodies ==
    { [json |-> "invalid", has_path |-> FALSE, pdf_path |-> ""],
      [json |-> "null", has_path |-> FALSE, pdf_path |-> ""],
      [json |-> "object", has_path |-> FALSE, pdf_path |-> ""] }
    \cup { [json |-> "object", has_path |-> TRUE, pdf_path |-> p] :
             p \in ExistingPaths \cup {"", "missing.pdf"} }

NoBody == [json |-> "none", has_path |-> FALSE, pdf_path |-> ""]

\* What PPStructure returns for a page image, by the image's content (the
\* PDF and the 0-based page it was rendered from).
ModelResult(img) ==
    CASE img.path = "a.pdf" /\ img.page = 0 ->
           << [type |-> "title", bbox |-> <<100, 50, 900, 120>>,
               res |-> [kind |-> "dict", text |-> "Heading", repr |-> "{text}"]],
              [type |-> "text", bbox |-> <<100, 200, 1500, 400>>,
               res |-> [kind |-> "dict", text |-> "Body", repr |-> "{text}"]],
              [type |-> "figure",
               res |-> [kind |-> "dict", text |-> "Fig. 1", repr |-> "{text}"]] >>
      [] img.path = "a.pdf" /\ img.page = 1 ->
           << [type |-> "table", bbox |-> <<0, 0, 1700, 2200>>,
               res |-> [kind |-> "dict", text |-> "", repr |-> "{html}"]],
              [type |-> "equation", bbox |-> <<25, 75, 125, 175>>] >>
      [] img.path = "b.pdf" ->
           << [type |-> "header", bbox |-> <<10, 20, 30, 40>>,
               res |-> [kind |-> "list", text |-> "", repr |-> "[lines]"]],
              [bbox |-> <<5, 5, 15, 15>>],
              [type |-> "table", bbox |-> <<200, 400, 600, 800>>] >>
      [] img.path = "c.pdf" ->
           << [type |-> "text", bbox |-> <<1, 2, 3, 4>>,
               res |-> [kind |-> "list", text |-> "", repr |-> "[lines]"]] >>
      [] OTHER -> << >>

-----------------------------------------------------------------------------
(* Pure functions of the server *)

\* f"page_{page_num}.png" under temp_dir
ImgPath(n) == "temp_pdf_images/page_" \o ToString(n) \o ".png"

\* scale = 72 / 200, kept as an exact fraction
ScaleNum == 72
ScaleDen == 200

\* the scale inverted (image pixels per point)
ScaledInverted(x) == [num |-> x * ScaleDen, den |-> ScaleNum]

Scaled(x) == [num |-> x * ScaleNum, den |-> ScaleDen]

ItemBBox(item) ==
    IF "bbox" \in DOMAIN item THEN item.bbox ELSE <<0, 0, 0, 0>>

ItemType(item) ==
    IF "type" \in DOMAIN item THEN item.type ELSE "text"

\* the default of type_map.get dropped: an unknown type passes through
map_type_passthrough(pp_type) ==
    CASE pp_type = "title" -> "text"
      [] pp_type = "figure" -> "image"
      [] OTHER -> pp_type

map_type(pp_type) ==
    CASE pp_type = "text" -> "text"
      [] pp_type = "title" -> "text"
      [] pp_type = "figure" -> "image"
      [] pp_type = "table" -> "table"
      [] pp_type = "equation" -> "equation"
      [] OTHER -> "text"

\* the id built from the position alone
ElementIdNoPage(page_index, idx) == "el_" \o ToString(idx)

ElementId(page_index, idx) ==
    "el_" \o ToString(page_index) \o "_" \o ToString(idx)

\* item.get('res', {}).get('text', ''): defined when res is absent or a dict
ResText(item) ==
    IF "res" \in DOMAIN item THEN item.res.text ELSE ""

\* str(item.get('res', ''))
ResStr(item) ==
    IF "res" \in DOMAIN item THEN item.res.repr ELSE ""

\* .get on a res that is no dict raises AttributeError
ItemRaises(item) ==
    /\ ItemType(item) \in {"text", "title", "figure"}
    /\ "res" \in DOMAIN item
    /\ item.res.kind # "dict"

ResultRaises(res) == \E k \in 1..Len(res) : ItemRaises(res[k])

Element(item, idx, page_index) ==
    LET b == ItemBBox(item)
        t == ItemType(item)
        base == [id |-> ElementId(page_index, idx),
                 type |-> map_type(t),
                 bbox |-> <<Scaled(b[1]), Scaled(b[2]), Scaled(b[3]), Scaled(b[4])>>,
                 pageIndex |-> page_index,
                 content |-> "", caption |-> "",
                 keys |-> {"id", "type", "bbox", "pageIndex"}]
    IN CASE t = "text" ->
              [base EXCEPT !.content = ResText(item), !.keys = @ \cup {"content"}]
         [] t = "title" ->
              [base EXCEPT !.content = ResText(item), !.type = "text",
                           !.keys = @ \cup {"content"}]
         [] t = "figure" ->
              [base EXCEPT !.type = "image", !.caption = ResText(item),
                           !.keys = @ \cup {"caption"}]
         [] t = "table" ->
              [base EXCEPT !.type = "table", !.content = ResStr(item),
                           !.keys = @ \cup {"content"}]
         [] OTHER -> base

parse_pp_structure_result(res, page_index, page_width, page_height) ==
    [k \in 1..Len(res) |-> Element(res[k], k - 1, page_index)]

\* the entry carrying the 0-based page number
ImageEntryZeroBased(n, page) ==
    [page_index |-> n, img_path |-> "temp_pdf_images/page_" \o ToString(n) \o ".png",
     width |-> page.width, height |-> page.height]

\* one tuple of the list pdf_to_images returns
ImageEntry(n, page) ==
    [page_index |-> n + 1, img_path |-> ImgPath(n),
     width |-> page.width, height |-> page.height]

PageEntry(im, blocks) ==
    [pageIndex |-> im.page_index, width |-> im.width, height |-> im.height,
     blocks |-> blocks]

\* Response bodies; 'keys' is the set of keys of the JSON object.
NoResp == << >>
Ok(ps) ==
    [status |-> 200, keys |-> {"structure"}, error |-> "",
     structure |-> [pageCount |-> Len(ps), pages |-> ps]]
Err(code, msg) ==
    [status |-> code, keys |-> {"error"}, error |-> msg,
     structure |-> [pageCount |-> 0, pages |-> << >>]]

\* a try block that starts after the body is read
InTryAfterBody(label) == label \in {"open", "render", "analyse",
                                    "convert", "remove", "respond"}

\* the code positions the try block of parse_pdf covers
InTry(label) == label \in {"validate", "open", "render", "analyse",
                           "convert", "remove", "respond"}

-----------------------------------------------------------------------------
(* State *)

\* the file names pdf_to_images can write
ImgPaths ==
    UNION { {ImgPath(n - 1) : n \in 1..Len(Docs[p])} : p \in DOMAIN Docs }

NoFile == [exists |-> FALSE, path |-> "", page |-> 0, by |-> 0]
Image(path, n, w) == [exists |-> TRUE, path |-> path, page |-> n, by |-> w]

\* History of the request a worker serves: was an environment fault injected
\* into it, the bodies of the requests that overlapped it, the files it
\* wrote, the model results it got, the number of model calls, whether it
\* ran makedirs, whether it analysed or removed another request's image.
NoHist == [faulted |-> FALSE, peers |-> {}, rendered |-> {}, results |-> << >>,
           calls |-> 0, mkdir |-> FALSE, foreign |-> FALSE]

Init ==
    /\ pc = [w \in Workers |-> "idle"]
    /\ req = [w \in Workers |-> NoBody]
    /\ images = [w \in Workers |-> << >>]
    /\ page_num = [w \in Workers |-> 0]
    /\ cur = [w \in Workers |-> 1]
    /\ result = [w \in Workers |-> << >>]
    /\ pages = [w \in Workers |-> << >>]
    /\ exc = [w \in Workers |-> ""]
    /\ resp = [w \in Workers |-> NoResp]
    /\ tempDir = FALSE
    /\ tempFiles = [f \in ImgPaths |-> NoFile]
    /\ nReq = 0
    /\ nFaults = 0
    /\ hist = [w \in Workers |-> NoHist]

InFlight(w) == pc[w] \notin {"idle", "done"}

\* os.path.exists
Exists(path) == tempFiles[path].exists

\* pix.save: creates or overwrites
WriteFile(path, content) == [tempFiles EXCEPT ![path] = content]

\* os.remove
RemoveFile(path) == [tempFiles EXCEPT ![path] = NoFile]

\* raise msg at position label of worker w
Raise(w, label, msg) ==
    /\ pc' = [pc EXCEPT ![w] = IF InTry(label) THEN "except" ELSE "crashed"]
    /\ exc' = [exc EXCEPT ![w] = msg]

\* return a response from the handler
Send(w, r) ==
    /\ pc' = [pc EXCEPT ![w] = "done"]
    /\ resp' = [resp EXCEPT ![w] = Append(@, r)]

\* where the loop at line 144 goes after the page at position i
NextPage(w, i) ==
    IF i < Len(images[w]) THEN "analyse" ELSE "respond"

-----------------------------------------------------------------------------
(* The handler of POST /parse, one action per step *)

\* a request arrives at an idle worker thread
Receive(w, b) ==
    /\ pc[w] \in {"idle", "done"}
    /\ nReq < MaxRequests
    /\ nReq' = nReq + 1
    /\ pc' = [pc EXCEPT ![w] = "validate"]
    /\ req' = [req EXCEPT ![w] = b]
    /\ images' = [images EXCEPT ![w] = << >>]
    /\ page_num' = [page_num EXCEPT ![w] = 0]
    /\ cur' = [cur EXCEPT ![w] = 1]
    /\ result' = [result EXCEPT ![w] = << >>]
    /\ pages' = [pages EXCEPT ![w] = << >>]
    /\ exc' = [exc EXCEPT ![w] = ""]
    /\ resp' = [resp EXCEPT ![w] = NoResp]
    /\ hist' = [v \in Workers |->
                  IF v = w
                  THEN [NoHist EXCEPT !.peers = {req[u] : u \in {u \in Workers : InFlight(u)}}]
                  ELSE IF InFlight(v)
                       THEN [hist[v] EXCEPT !.peers = @ \cup {b}]
                       ELSE hist[v]]
    /\ UNCHANGED <<fs, nFaults>>

\* the check without os.path.exists
NotFoundFalsyOnly(b) == ~b.has_path \/ b.pdf_path = ""

\* pdf_path is falsy or names nothing on disk
NotFound(b) == ~b.has_path \/ b.pdf_path = "" \/ b.pdf_path \notin ExistingPaths

\* lines 133-137: request.json, data.get, the existence check
Validate(w) ==
    /\ pc[w] = "validate"
    /\ CASE req[w].json = "invalid" ->
              /\ Raise(w, "validate", "400 Bad Request")
              /\ UNCHANGED resp
         [] req[w].json = "null" ->
              /\ Raise(w, "validate", "'NoneType' object has no attribute 'get'")
              /\ UNCHANGED resp
         [] OTHER ->
              IF NotFound(req[w])
              THEN /\ Send(w, Err(404, "PDF file not found"))
                   /\ UNCHANGED exc
              ELSE /\ pc' = [pc EXCEPT ![w] = "open"]
                   /\ UNCHANGED <<exc, resp>>
    /\ UNCHANGED <<req, locals, fs, nReq, nFaults, hist>>

\* lines 37-40: fitz.open, then makedirs
Open(w) ==
    /\ pc[w] = "open"
    /\ IF req[w].pdf_path \notin DOMAIN Docs
       THEN /\ Raise(w, "open", "Failed to open file")
            /\ UNCHANGED <<tempDir, hist>>
       ELSE /\ tempDir' = TRUE
            /\ hist' = [hist EXCEPT ![w].mkdir = TRUE]
            /\ pc' = [pc EXCEPT ![w] =
                        IF Len(Docs[req[w].pdf_path]) > 0 THEN "render" ELSE "respond"]
            /\ UNCHANGED exc
    /\ UNCHANGED <<req, locals, resp, tempFiles, nReq, nFaults>>

\* lines 42-51, one iteration: render the page, save it, record the entry
Render(w) ==
    /\ pc[w] = "render"
    /\ LET doc == Docs[req[w].pdf_path]
           n == page_num[w]
       IN /\ tempFiles' = WriteFile(ImgPath(n), Image(req[w].pdf_path, n, w))
          /\ images' = [images EXCEPT ![w] = Append(@, ImageEntry(n, doc[n + 1]))]
          /\ page_num' = [page_num EXCEPT ![w] = n + 1]
          /\ hist' = [hist EXCEPT ![w].rendered = @ \cup {ImgPath(n)}]
          /\ pc' = [pc EXCEPT ![w] = IF n + 1 < Len(doc) THEN "render" ELSE "analyse"]
    /\ UNCHANGED <<req, cur, result, pages, exc, resp, tempDir, nReq, nFaults>>

\* get_pixmap or pix.save fails (memory, disk)
RenderFails(w) ==
    /\ pc[w] = "render"
    /\ nFaults < MaxFaults
    /\ nFaults' = nFaults + 1
    /\ hist' = [hist EXCEPT ![w].faulted = TRUE]
    /\ Raise(w, "render", "cannot save pixmap")
    /\ UNCHANGED <<req, locals, resp, fs, nReq>>

\* line 146: the model reads the file at img_path
Analyse(w) ==
    /\ pc[w] = "analyse"
    /\ LET f == images[w][cur[w]].img_path
       IN IF Exists(f)
          THEN /\ result' = [result EXCEPT ![w] = ModelResult(tempFiles[f])]
               /\ hist' = [hist EXCEPT ![w].results = Append(@, ModelResult(tempFiles[f])),
                                        ![w].calls = @ + 1,
                                        ![w].foreign = @ \/ tempFiles[f].by # w]
               /\ pc' = [pc EXCEPT ![w] = "convert"]
               /\ UNCHANGED exc
          ELSE /\ Raise(w, "analyse", "error in loading image")
               /\ hist' = [hist EXCEPT ![w].calls = @ + 1]
               /\ UNCHANGED result
    /\ UNCHANGED <<req, images, page_num, cur, pages, resp, fs, nReq, nFaults>>

\* the model itself fails on the image
AnalyseFails(w) ==
    /\ pc[w] = "analyse"
    /\ nFaults < MaxFaults
    /\ nFaults' = nFaults + 1
    /\ hist' = [hist EXCEPT ![w].faulted = TRUE, ![w].calls = @ + 1]
    /\ Raise(w, "analyse", "inference failed")
    /\ UNCHANGED <<req, locals, resp, fs, nReq>>

\* lines 149-159: convert the result, append the page, test the image file
Convert(w) ==
    /\ pc[w] = "convert"
    /\ LET im == images[w][cur[w]]
       IN IF ResultRaises(result[w])
          THEN /\ Raise(w, "convert", "'list' object has no attribute 'get'")
               /\ UNCHANGED <<pages, cur>>
          ELSE /\ pages' = [pages EXCEPT ![w] =
                     Append(@, PageEntry(im,
                        parse_pp_structure_result(result[w], im.page_index,
                                                  im.width, im.height)))]
               /\ IF Exists(im.img_path)
                  THEN /\ pc' = [pc EXCEPT ![w] = "remove"]
                       /\ UNCHANGED cur
                  ELSE /\ pc' = [pc EXCEPT ![w] = NextPage(w, cur[w])]
                       /\ cur' = [cur EXCEPT ![w] = @ + 1]
               /\ UNCHANGED exc
    /\ UNCHANGED <<req, images, page_num, result, resp, fs, nReq, nFaults, hist>>

\* line 160: os.remove(img_path)
Remove(w) ==
    /\ pc[w] = "remove"
    /\ LET f == images[w][cur[w]].img_path
       IN IF Exists(f)
          THEN /\ tempFiles' = RemoveFile(f)
               /\ hist' = [hist EXCEPT ![w].foreign = @ \/ tempFiles[f].by # w]
               /\ pc' = [pc EXCEPT ![w] = NextPage(w, cur[w])]
               /\ cur' = [cur EXCEPT ![w] = @ + 1]
               /\ UNCHANGED exc
          ELSE /\ Raise(w, "remove", "No such file or directory")
               /\ UNCHANGED <<tempFiles, hist, cur>>
    /\ UNCHANGED <<req, images, page_num, result, pages, resp, tempDir, nReq, nFaults>>

\* lines 162-167
Respond(w) ==
    /\ pc[w] = "respond"
    /\ Send(w, Ok(pages[w]))
    /\ UNCHANGED <<req, locals, exc, fs, nReq, nFaults, hist>>

\* lines 169-172: the blanket handler
Except(w) ==
    /\ pc[w] = "except"
    /\ Send(w, Err(500, exc[w]))
    /\ UNCHANGED <<req, locals, exc, fs, nReq, nFaults, hist>>

Step(w) ==
    \/ Validate(w)
    \/ Open(w)
    \/ Render(w)
    \/ RenderFails(w)
    \/ Analyse(w)
    \/ AnalyseFails(w)
    \/ Convert(w)
    \/ Remove(w)
    \/ Respond(w)
    \/ Except(w)

Next ==
    \/ \E w \in Workers, b \in Bodies : Receive(w, b)
    \/ \E w \in Workers : Step(w)

Spec == Init /\ [][Next]_vars

-----------------------------------------------------------------------------
(* Properties *)

Answered(w) == pc[w] = "done" /\ Len(resp[w]) = 1
Answered200(w) == Answered(w) /\ resp[w][1].status = 200

BlockTypes == {"text", "table", "image", "equation"}

\* the type a block must have for a model item
ExpectedType(item) ==
    IF "type" \notin DOMAIN item THEN "text"
    ELSE IF item.type \in {"text", "title"} THEN "text"
    ELSE IF item.type = "figure" THEN "image"
    ELSE IF item.type = "table" THEN "table"
    ELSE IF item.type = "equation" THEN "equation"
    ELSE "text"

\* the pages of the response of an answered request
RespPages(w) == resp[w][1].structure.pages

\* the blocks of a 200 response as (page position, block position) pairs
BlockPositions(w) ==
    UNION { {<<i, k>> : k \in 1..Len(RespPages(w)[i].blocks)} :
              i \in 1..Len(RespPages(w)) }

\* C1: a 200 response has pageCount = N = Len(pages), and its i-th page entry
\* has pageIndex i and the width and height of the i-th page of the PDF.
C1_PagesMatchDocument ==
    \A w \in Workers :
        Answered200(w) =>
            /\ req[w].pdf_path \in DOMAIN Docs
            /\ LET doc == Docs[req[w].pdf_path]
                   st == resp[w][1].structure
               IN /\ st.pageCount = Len(doc)
                  /\ Len(st.pages) = Len(doc)
                  /\ \A i \in 1..Len(doc) :
                        /\ st.pages[i].pageIndex = i
                        /\ st.pages[i].width = doc[i].width
                        /\ st.pages[i].height = doc[i].height

C1_Witness ==
    /\ \E w \in Workers : Answered200(w) /\ req[w].pdf_path = "a.pdf"
    /\ \E w \in Workers : Answered200(w) /\ req[w].pdf_path = "empty.pdf"

\* C2: a request is answered exactly once, with 200, 404 or 500; an exception
\* raised anywhere in the handler never leaves it, and is answered with 500
\* and a body holding only the error message; a handler in flight can always
\* take its next step.
C2_BlanketHandler ==
    \A w \in Workers :
        /\ pc[w] # "crashed"
        /\ pc[w] # "done" => resp[w] = << >>
        /\ InFlight(w) => ENABLED Step(w)
        /\ pc[w] = "done" =>
            /\ Len(resp[w]) = 1
            /\ resp[w][1].status \in {200, 404, 500}
            /\ exc[w] # "" =>
                 /\ resp[w][1].status = 500
                 /\ resp[w][1].keys = {"error"}
                 /\ resp[w][1].error = exc[w]
                 /\ resp[w][1].structure.pages = << >>
            /\ exc[w] = "" => resp[w][1].status \in {200, 404}

\* a 500 answered after a page had already been converted
C2_Witness ==
    /\ \E w \in Workers :
         Answered(w) /\ resp[w][1].status = 500 /\ Len(pages[w]) >= 1
    /\ \E w \in Workers :
         Answered(w) /\ resp[w][1].status = 500 /\ req[w].json = "invalid"

\* C3: the step that validates an object body whose pdf_path is absent, empty
\* or names nothing on disk answers 404 'PDF file not found' and changes
\* neither the temp directory nor its files, and calls neither the renderer
\* nor the model.
C3_NotFoundLeavesState ==
    [][\A w \in Workers :
         ( /\ pc[w] = "validate"
           /\ pc'[w] # "validate"
           /\ req[w].json = "object"
           /\ \/ ~req[w].has_path
              \/ req[w].pdf_path = ""
              \/ req[w].pdf_path \notin ExistingPaths )
         => /\ pc'[w] = "done"
            /\ resp'[w] = << [status |-> 404, keys |-> {"error"},
                              error |-> "PDF file not found",
                              structure |-> [pageCount |-> 0, pages |-> << >>]] >>
            /\ tempDir' = tempDir
            /\ tempFiles' = tempFiles
            /\ hist'[w].rendered = {}
            /\ hist'[w].calls = 0
            /\ ~hist'[w].mkdir]_vars

C3_Witness ==
    /\ \E w \in Workers :
         /\ Answered(w) /\ resp[w][1].status = 404
         /\ req[w].has_path /\ req[w].pdf_path = "missing.pdf"
         /\ ~tempDir
    /\ \E w \in Workers :
         Answered(w) /\ resp[w][1].status = 404 /\ ~req[w].has_path

\* C4: every block of a 200 response has a type among text, table, image and
\* equation, the one the model's type maps to (text for a missing or unknown
\* type).
C4_BlockTypes ==
    \A w \in Workers :
        Answered200(w) =>
            /\ Len(hist[w].results) = Len(RespPages(w))
            /\ \A i \in 1..Len(RespPages(w)) :
                 \A k \in 1..Len(RespPages(w)[i].blocks) :
                    /\ RespPages(w)[i].blocks[k].type \in BlockTypes
                    /\ k <= Len(hist[w].results[i])
                    /\ RespPages(w)[i].blocks[k].type =
                          ExpectedType(hist[w].results[i][k])

\* 200 responses holding a block for an unknown type, a missing type, and each
\* of the known ones
C4_Witness ==
    /\ \E w \in Workers :
         /\ Answered200(w) /\ Len(hist[w].results) = 1
         /\ \E k \in 1..Len(hist[w].results[1]) :
               /\ "type" \in DOMAIN hist[w].results[1][k]
               /\ hist[w].results[1][k].type = "header"
         /\ \E k \in 1..Len(hist[w].results[1]) :
               "type" \notin DOMAIN hist[w].results[1][k]
    /\ \E w \in Workers :
         /\ Answered200(w) /\ Len(RespPages(w)) = 2
         /\ {RespPages(w)[x[1]].blocks[x[2]].type :
               x \in BlockPositions(w)} = BlockTypes

\* C5: when a request is answered, none of the page images it rendered is
\* left in temp_pdf_images.
C5_NoImagesLeft ==
    [][\A w \in Workers :
         (pc[w] # "done" /\ pc'[w] = "done") =>
            \A f \in hist[w].rendered :
               ~(tempFiles'[f].exists /\ tempFiles'[f].by = w)]_vars

\* C6: each bbox coordinate of a block is the model's coordinate times 72/200,
\* whatever the page; a model item without bbox gives four zeros.
C6_BBoxScaled ==
    \A w \in Workers :
        Answered200(w) =>
            \A i \in 1..Len(RespPages(w)) :
              \A k \in 1..Len(RespPages(w)[i].blocks) :
                LET b == RespPages(w)[i].blocks[k].bbox
                    item == hist[w].results[i][k]
                IN /\ Len(b) = 4
                   /\ \A j \in 1..4 :
                        /\ b[j].den > 0
                        /\ IF "bbox" \in DOMAIN item
                           THEN b[j].num * 200 = item.bbox[j] * 72 * b[j].den
                           ELSE b[j].num = 0

\* a 200 response with pages of different sizes, a scaled bbox and a block of
\* an item without bbox
C6_Witness ==
    \E w \in Workers :
        /\ Answered200(w) /\ Len(RespPages(w)) = 2
        /\ RespPages(w)[1].width # RespPages(w)[2].width
        /\ \E k \in 1..Len(hist[w].results[1]) :
              "bbox" \notin DOMAIN hist[w].results[1][k]
        /\ \E k \in 1..Len(hist[w].results[2]) :
              /\ "bbox" \in DOMAIN hist[w].results[2][k]
              /\ hist[w].results[2][k].bbox[3] = 1700
              /\ RespPages(w)[2].blocks[k].bbox[3].num = 612 * RespPages(w)[2].blocks[k].bbox[3].den

\* the response a request for an existing PDF gets when it runs alone
AloneResponse(path) ==
    [status |-> 200, keys |-> {"structure"}, error |-> "",
     structure |->
        [pageCount |-> Len(Docs[path]),
         pages |-> [i \in 1..Len(Docs[path]) |->
             [pageIndex |-> i,
              width |-> Docs[path][i].width, height |-> Docs[path][i].height,
              blocks |-> parse_pp_structure_result(
                            ModelResult([path |-> path, page |-> i - 1]), i,
                            Docs[path][i].width, Docs[path][i].height)]]]]

\* the PDFs a request alone answers 200 for
Parseable ==
    {p \in DOMAIN Docs :
        \A i \in 1..Len(Docs[p]) : ~ResultRaises(ModelResult([path |-> p, page |-> i - 1]))}

\* C7: a request for an existing PDF that overlapped only requests for other
\* existing PDFs answers what it would answer alone, and neither analysed nor
\* removed an image another request rendered.
C7_NoInterference ==
    \A w \in Workers :
        ( /\ pc[w] = "done"
          /\ req[w].json = "object" /\ req[w].has_path
          /\ req[w].pdf_path \in Parseable
          /\ ~hist[w].faulted
          /\ hist[w].peers # {}
          /\ \A b \in hist[w].peers :
                /\ b.json = "object" /\ b.has_path
                /\ b.pdf_path \in Parseable
                /\ b.pdf_path # req[w].pdf_path )
        => /\ resp[w] = << AloneResponse(req[w].pdf_path) >>
           /\ ~hist[w].foreign

\* a request that overlapped no other and met no fault answers as AloneResponse
SequentialRequestsAnswerAlone ==
    \A w \in Workers :
        ( /\ pc[w] = "done"
          /\ req[w].json = "object" /\ req[w].has_path
          /\ req[w].pdf_path \in Parseable
          /\ ~hist[w].faulted
          /\ hist[w].peers = {} )
        => /\ resp[w] = << AloneResponse(req[w].pdf_path) >>
           /\ ~hist[w].foreign

\* C8: in a 200 response the block ids are pairwise distinct; the block at
\* 0-based position idx of page p has id el_<p>_<idx> and the pageIndex of its
\* page entry, and a page has one block per model item, in the model's order.
C8_BlockIds ==
    \A w \in Workers :
        Answered200(w) =>
            /\ \A x, y \in BlockPositions(w) :
                 x # y => RespPages(w)[x[1]].blocks[x[2]].id #
                          RespPages(w)[y[1]].blocks[y[2]].id
            /\ \A i \in 1..Len(RespPages(w)) :
                 /\ Len(RespPages(w)[i].blocks) = Len(hist[w].results[i])
                 /\ \A k \in 1..Len(RespPages(w)[i].blocks) :
                      LET bl == RespPages(w)[i].blocks[k]
                          item == hist[w].results[i][k]
                          p == RespPages(w)[i].pageIndex
                      IN /\ bl.id = "el_" \o ToString(p) \o "_" \o ToString(k - 1)
                         /\ bl.pageIndex = p
                         /\ bl.type = ExpectedType(item)
                         /\ "bbox" \in DOMAIN item =>
                               \A j \in 1..4 : bl.bbox[j].num * 25 = item.bbox[j] * 9 * bl.bbox[j].den

\* a 200 response of two pages with several blocks each
C8_Witness ==
    \E w \in Workers :
        /\ Answered200(w)
        /\ Len(RespPages(w)) = 2
        /\ Len(RespPages(w)[1].blocks) = 3
        /\ Len(RespPages(w)[2].blocks) = 2
        /\ RespPages(w)[2].blocks[2].id = "el_2_1"

====
